---- MODULE Spec2Model ----
(***************************************************************************)
(* Model of agent/transport_agent.py: the TransportAgent object (routes,   *)
(* from/to option lists, known-stop list, stop lookup, alias table) and    *)
(* its three public operations get_options, find_route and                 *)
(* suggest_alternative.                                                    *)
(*                                                                         *)
(* A Python str is a sequence of one-character strings; an Optional value  *)
(* is a sequence of length 0 (None) or 1.                                  *)
(***************************************************************************)
EXTENDS Integers, Sequences, FiniteSets

None == <<>>
Some(x) == <<x>>

Max(a, b) == IF a >= b THEN a ELSE b

\* The element of a one-element set.  Only({e : x \in {v}}) is e with x
\* naming the value of v: v is computed once, as an assignment to a local
\* variable computes it once.
Only(S) == CHOOSE x \in S : TRUE

(***************************************************************************)
(* str primitives: whitespace, lower(), strip(), comparison, "in".         *)
(***************************************************************************)
Digits == <<"0", "1", "2", "3", "4", "5", "6", "7", "8", "9">>
Upper == <<"A", "B", "C", "D", "E", "F", "G", "H", "I", "J", "K", "L", "M",
           "N", "O", "P", "Q", "R", "S", "T", "U", "V", "W", "X", "Y", "Z">>
Lowers == <<"a", "b", "c", "d", "e", "f", "g", "h", "i", "j", "k", "l", "m",
            "n", "o", "p", "q", "r", "s", "t", "u", "v", "w", "x", "y", "z">>
\* the characters of the model in code-point order
CodePoints == <<"\t", " ">> \o Digits \o <<":">> \o Upper \o Lowers

IndexOf(seq, x) == CHOOSE i \in 1..Len(seq) : seq[i] = x
\* ord(c), and c.lower()
Ord(c) == IndexOf(CodePoints, c)
LowerChar(c) == IF \E i \in 1..Len(Upper) : Upper[i] = c
                THEN Lowers[IndexOf(Upper, c)] ELSE c
IsSpace(c) == c \in {" ", "\t"}
IsDigit(c) == c \in {Digits[i] : i \in 1..Len(Digits)}
DigitVal(c) == IndexOf(Digits, c) - 1

\* a < b for Python str: lexicographic by code point, a proper prefix is less
\* (i is the first position where b has a character a does not match)
StrLess(a, b) ==
  \E i \in 1..Len(b) :
    /\ \A k \in 1..(i - 1) : k <= Len(a) /\ a[k] = b[k]
    /\ \/ i = Len(a) + 1
       \/ i <= Len(a) /\ Ord(a[i]) < Ord(b[i])

SetMax(S) == CHOOSE x \in S : \A y \in S : y <= x
SetMin(S) == CHOOSE x \in S : \A y \in S : x <= y

\* value.strip(): from the first to the last character that is not whitespace
Strip(s) ==
  IF \A i \in 1..Len(s) : IsSpace(s[i]) THEN <<>>
  ELSE SubSeq(s, SetMin({i \in 1..Len(s) : ~IsSpace(s[i])}),
                 SetMax({i \in 1..Len(s) : ~IsSpace(s[i])}))

\* a in b (substring test)
Contains(b, a) ==
  \E i \in 0..(Len(b) - Len(a)) : SubSeq(b, i + 1, i + Len(a)) = a

(***************************************************************************)
(* _normalize: " ".join(value.strip().lower().split())                     *)
(***************************************************************************)
\* The words of value in lower case with one space between two words: a
\* character that is not whitespace is kept in lower case, and the first
\* whitespace character after a word is kept as a space when a word follows.
RECURSIVE NormalizeFrom(_, _)
NormalizeFrom(s, i) ==
  IF i > Len(s) THEN <<>>
  ELSE IF ~IsSpace(s[i]) THEN <<LowerChar(s[i])>> \o NormalizeFrom(s, i + 1)
  ELSE IF /\ i > 1 /\ ~IsSpace(s[i - 1])
          /\ \E k \in (i + 1)..Len(s) : ~IsSpace(s[k])
       THEN <<" ">> \o NormalizeFrom(s, i + 1)
  ELSE NormalizeFrom(s, i + 1)
Normalize(value) == Only({NormalizeFrom(s, 1) : s \in {value}})

(***************************************************************************)
(* _clock_to_minutes: datetime.strptime(hhmm, "%H:%M").  %H matches        *)
(* 2[0-3] | [0-1]\d | \d and %M matches [0-5]\d | \d, and the whole text   *)
(* must be consumed.  ClockOk is "no ValueError".                          *)
(***************************************************************************)
HourOk(h) ==
  /\ Len(h) \in {1, 2}
  /\ \A i \in 1..Len(h) : IsDigit(h[i])
  /\ Len(h) = 2 => \/ h[1] \in {"0", "1"}
                   \/ h[1] = "2" /\ h[2] \in {"0", "1", "2", "3"}
MinuteOk(m) ==
  /\ Len(m) \in {1, 2}
  /\ \A i \in 1..Len(m) : IsDigit(m[i])
  /\ Len(m) = 2 => m[1] \in {"0", "1", "2", "3", "4", "5"}
RECURSIVE Number(_)
Number(d) == IF d = <<>> THEN 0
             ELSE 10 * Number(SubSeq(d, 1, Len(d) - 1)) + DigitVal(d[Len(d)])
ColonAt(hhmm) == {i \in 1..Len(hhmm) : hhmm[i] = ":"}
ClockOk(hhmm) ==
  \E i \in ColonAt(hhmm) :
    /\ HourOk(SubSeq(hhmm, 1, i - 1))
    /\ MinuteOk(SubSeq(hhmm, i + 1, Len(hhmm)))
ClockToMinutes(hhmm) ==
  LET i == CHOOSE k \in ColonAt(hhmm) :
             /\ HourOk(SubSeq(hhmm, 1, k - 1))
             /\ MinuteOk(SubSeq(hhmm, k + 1, Len(hhmm)))
  IN  Number(SubSeq(hhmm, 1, i - 1)) * 60
        + Number(SubSeq(hhmm, i + 1, Len(hhmm)))

\* ParseTime that reads the digits around the colon without their ranges
ParseTimeAnyDigits(value) ==
  LET text == Strip(value)
      ok(i) == /\ i - 1 \in {1, 2} /\ Len(text) - i \in {1, 2}
               /\ \A k \in (1..Len(text)) \ {i} : IsDigit(text[k])
  IN  IF \E i \in ColonAt(text) : ok(i)
      THEN LET i == CHOOSE k \in ColonAt(text) : ok(k)
           IN  Some(Number(SubSeq(text, 1, i - 1)) * 60
                      + Number(SubSeq(text, i + 1, Len(text))))
      ELSE None

\* _parse_time: None for blank text and for text strptime rejects
ParseTime(value) ==
  LET text == Strip(value)
  IN  IF text = <<>> THEN None
      ELSE IF ClockOk(text) THEN Some(ClockToMinutes(text))
      ELSE None

(***************************************************************************)
(* difflib.SequenceMatcher(None, a, b).ratio() with no junk (autojunk only *)
(* acts on sequences of 200 or more elements).  MatchCount is the total    *)
(* size of get_matching_blocks(): the longest common block of the window,  *)
(* the one starting earliest in a and then earliest in b, then the same to *)
(* its left and to its right.                                              *)
(***************************************************************************)
RECURSIVE RunLen(_, _, _, _, _, _)
RunLen(a, b, i, j, ahi, bhi) ==
  IF i <= ahi /\ j <= bhi /\ a[i] = b[j]
  THEN 1 + RunLen(a, b, i + 1, j + 1, ahi, bhi)
  ELSE 0

\* the common blocks <<i, j, size>> of the window a[alo..ahi], b[blo..bhi],
\* one per start (i, j) where a and b agree
Blocks(a, b, alo, ahi, blo, bhi) ==
  {<<c[1], c[2], RunLen(a, b, c[1], c[2], ahi, bhi)>> :
     c \in {d \in (alo..ahi) \X (blo..bhi) : a[d[1]] = b[d[2]]}}
\* find_longest_match: <<besti, bestj, bestsize>>, the longest block, of those
\* the one starting earliest in a, of those the one starting earliest in b
\* (only a strictly longer block replaces the best one while i and then j
\* ascend)
LongestOf(blocks, alo, blo) ==
  IF blocks = {} THEN <<alo, blo, 0>>
  ELSE CHOOSE m \in blocks :
         \A o \in blocks :
           \/ o[3] < m[3]
           \/ o[3] = m[3] /\ m[1] < o[1]
           \/ o[3] = m[3] /\ m[1] = o[1] /\ m[2] <= o[2]
FindLongestMatch(a, b, alo, ahi, blo, bhi) ==
  Only({LongestOf(blocks, alo, blo) : blocks \in {Blocks(a, b, alo, ahi, blo, bhi)}})

RECURSIVE MatchCount(_, _, _, _, _, _)
MatchCount(a, b, alo, ahi, blo, bhi) ==
  IF alo > ahi \/ blo > bhi THEN 0
  ELSE Only({IF m[3] = 0 THEN 0
             ELSE m[3] + MatchCount(a, b, alo, m[1] - 1, blo, m[2] - 1)
                       + MatchCount(a, b, m[1] + m[3], ahi, m[2] + m[3], bhi) :
             m \in {FindLongestMatch(a, b, alo, ahi, blo, bhi)}})

\* the score of _resolve_stop as an exact fraction <<numerator, denominator>>
\* in hundredths: ratio() = 2.0 * M / T, plus 0.12 when one contains the other
Ratio(a, b) ==
  IF Len(a) + Len(b) = 0 THEN <<100, 1>>
  ELSE <<200 * MatchCount(a, b, 1, Len(a), 1, Len(b)), Len(a) + Len(b)>>
Bonus(key, stop_key) ==
  IF Contains(stop_key, key) \/ Contains(key, stop_key) THEN 12 ELSE 0
ScoreOf(key, stop_key, ratio) ==
  <<ratio[1] + Bonus(key, stop_key) * ratio[2], ratio[2]>>
Score(key, stop_key) ==
  Only({ScoreOf(a, b, Ratio(a, b)) : a \in {key}, b \in {stop_key}})
ScoreGreater(x, y) == x[1] * y[2] > y[1] * x[2]
\* score < 0.70
BelowThreshold(x) == x[1] < 70 * x[2]

(***************************************************************************)
(* The timetables the agent is constructed from (the rows of _load_csv).   *)
(***************************************************************************)
MaxRoutes == 2
MaxStops == 3

sCharbagh == <<"C", "h", "a", "r", "b", "a", "g", "h">>
sStation == <<"S", "t", "a", "t", "i", "o", "n">>
sGomtiNagar == <<"G", "o", "m", "t", "i", " ", "N", "a", "g", "a", "r">>
\* the same three stops as another row may spell them
vCharbagh == <<"C", "H", "A", "R", "B", "A", "G", "H">>
vStation == <<"s", "t", "a", "t", "i", "o", "n">>
vGomtiNagar == <<"g", "o", "m", "t", "i", " ", " ", "n", "a", "g", "a", "r">>
StopNames == << <<sCharbagh, sStation, sGomtiNagar>>,
                <<vCharbagh, vStation, vGomtiNagar>> >>
NumStops == Len(StopNames[1])

t0800 == <<"0", "8", ":", "0", "0">>
t0930 == <<"0", "9", ":", "3", "0">>
t0940 == <<"0", "9", ":", "4", "0">>
\* departure_time and duration_minutes of a row
Schedules == {<<t0800, 45>>, <<t0930, 45>>, <<t0930, 9>>, <<t0940, 9>>}
\* route_id and bus_number of the row at each position of the file
RouteIds == << <<"R", "2">>, <<"R", "1", "0">>, <<"R", "1">> >>
BusNumbers == << <<"7">>, <<"1", "2">>, <<"3">> >>

\* the paths a row may list: 2..MaxStops stops, no stop twice in a row
StopPaths ==
  {p \in UNION {[1..n -> 1..NumStops] : n \in 2..MaxStops} :
     \A i \in 1..(Len(p) - 1) : p[i] # p[i + 1]}

\* RouteRow: the row at position pos of the file (rows at even positions use
\* the second spelling of the stops)
RouteRow(pos, path, departure, duration) ==
  LET stops == [i \in 1..Len(path) |-> StopNames[2 - (pos % 2)][path[i]]]
  IN  [route_id |-> RouteIds[pos],
       from_stop |-> stops[1],
       to_stop |-> stops[Len(stops)],
       bus_number |-> BusNumbers[pos],
       departure_time |-> departure,
       departure_minutes |-> ClockToMinutes(departure),
       duration_minutes |-> duration,
       stops |-> stops]

\* _load_csv: the lists of rows a file of 0..MaxRoutes rows loads as
Timetables ==
  UNION {{[pos \in 1..n |-> RouteRow(pos, c[pos][1], c[pos][2][1], c[pos][2][2])] :
            c \in [1..n -> StopPaths \X Schedules]} :
         n \in 0..MaxRoutes}

(***************************************************************************)
(* The texts the callers pass.                                             *)
(***************************************************************************)
qStation == <<"s", "t", "a", "t", "i", "o", "n">>
qStat == <<"S", "t", "a", "t">>
qGomtiNagar == <<" ", "G", "o", "m", "t", "i", "\t", " ", "N", "A", "G", "A", "R">>
qBlank == <<" ", "\t">>
FromTexts == {qStation, qStat, qBlank}
ToTexts == {qGomtiNagar, qStat, qBlank}
AfterTimes == {<<>>, <<" ", "8", ":", "0">>, <<"0", "9", ":", "0", "0">>,
               <<"2", "4", ":", "0", "0">>}

\* sorted(set of str) as a list
RECURSIVE SortedList(_)
SortedList(S) ==
  IF S = {} THEN <<>>
  ELSE Only({<<least>> \o SortedList(S \ {least}) :
             least \in {CHOOSE x \in S : \A y \in S : ~StrLess(y, x)}})

\* _build_stop_list: the stops in order of first appearance, one per
\* normalized name (listed is every stop of every row in file order; a stop
\* stays when no stop before it has its normalized name)
RECURSIVE StopsOf(_)
StopsOf(rows) == IF rows = <<>> THEN <<>> ELSE rows[1].stops \o StopsOf(Tail(rows))
RECURSIVE Unseen(_, _, _)
Unseen(listed, keys, i) ==
  IF i > Len(listed) THEN <<>>
  ELSE IF \E j \in 1..(i - 1) : keys[j] = keys[i] THEN Unseen(listed, keys, i + 1)
  ELSE <<listed[i]>> \o Unseen(listed, keys, i + 1)
BuildStopList(rows) ==
  Only({Only({Unseen(listed, keys, 1) :
              keys \in {[i \in 1..Len(listed) |-> Normalize(listed[i])]}}) :
        listed \in {StopsOf(rows)}})

\* self.stop_lookup = {self._normalize(stop): stop for stop in self.known_stops}
\* (a later stop with the same key would replace an earlier one)
LookupOf(stops, keys) ==
  [key \in {keys[i] : i \in 1..Len(stops)} |->
     stops[SetMax({i \in 1..Len(stops) : keys[i] = key})]]
BuildStopLookup(stops) ==
  Only({LookupOf(stops, keys) :
        keys \in {[i \in 1..Len(stops) |-> Normalize(stops[i])]}})

\* self.aliases
kAirport == <<"a", "i", "r", "p", "o", "r", "t">>
kAmausi == <<"a", "m", "a", "u", "s", "i">>
kStation == <<"s", "t", "a", "t", "i", "o", "n">>
kRailway == <<"r", "a", "i", "l", "w", "a", "y">>
kCharbagh == <<"c", "h", "a", "r", "b", "a", "g", "h">>
kGomti == <<"g", "o", "m", "t", "i">>
kNagar == <<"n", "a", "g", "a", "r">>
kNagr == <<"n", "a", "g", "r">>
AliasTable ==
  LET keys == {kAirport, kAmausi, kStation, kRailway \o <<" ">> \o kStation,
               kCharbagh \o <<" ">> \o kStation, kGomti \o kNagar,
               kGomti \o <<" ">> \o kNagr}
  IN  [k \in keys |->
         IF k \in {kAirport, kAmausi} THEN kAmausi \o <<" ">> \o kAirport
         ELSE IF k \in {kGomti \o kNagar, kGomti \o <<" ">> \o kNagr}
              THEN kGomti \o <<" ">> \o kNagar
         ELSE kCharbagh]

(***************************************************************************)
(* State: the attributes of the TransportAgent, and the call in progress.  *)
(***************************************************************************)
VARIABLES routes, from_options, to_options, known_stops, stop_lookup, aliases,
          pc, call, result

agent == <<routes, from_options, to_options, known_stops, stop_lookup, aliases>>
vars == <<routes, from_options, to_options, known_stops, stop_lookup, aliases,
          pc, call, result>>

NoCall == [op |-> "none", from_stop |-> <<>>, to_stop |-> <<>>, after_time |-> <<>>]

\* __init__
Init ==
  /\ routes \in Timetables
  /\ from_options = SortedList({routes[i].from_stop : i \in 1..Len(routes)})
  /\ to_options = SortedList({routes[i].to_stop : i \in 1..Len(routes)})
  /\ known_stops = BuildStopList(routes)
  /\ stop_lookup = BuildStopLookup(known_stops)
  /\ aliases = AliasTable
  /\ pc = "idle"
  /\ call = NoCall
  /\ result = None

(***************************************************************************)
(* _resolve_stop                                                           *)
(***************************************************************************)
\* the loop over known_stops from stops[i] on: a strictly greater score
\* replaces the best
RECURSIVE BestMatch(_, _, _, _, _)
BestMatch(key, stops, i, best_name, best_score) ==
  IF i > Len(stops) THEN <<best_name, best_score>>
  ELSE Only({IF ScoreGreater(score, best_score)
             THEN BestMatch(key, stops, i + 1, Some(stops[i]), score)
             ELSE BestMatch(key, stops, i + 1, best_name, best_score) :
             score \in {Score(key, Normalize(stops[i]))}})

\* the end of _resolve_stop, after the loop
Accepted(best) ==
  IF best[1] = None \/ BelowThreshold(best[2]) THEN None ELSE best[1]

\* self.aliases.get(key, key)
AliasOf(key) == IF key \in DOMAIN aliases THEN aliases[key] ELSE key

\* _resolve_stop after the alias lookup
ResolveKey(key) ==
  IF key \in DOMAIN stop_lookup THEN Some(stop_lookup[key])
  ELSE Only({Accepted(best) :
             best \in {BestMatch(key, known_stops, 1, None, <<0, 1>>)}})

\* ResolveStop that returns the best match whatever its score
ResolveStopAnyScore(raw_stop) ==
  Only({IF key = <<>> THEN None
        ELSE IF AliasOf(key) \in DOMAIN stop_lookup
             THEN Some(stop_lookup[AliasOf(key)])
        ELSE BestMatch(AliasOf(key), known_stops, 1, None, <<0, 1>>)[1] :
        key \in {Normalize(raw_stop)}})

ResolveStop(raw_stop) ==
  Only({IF key = <<>> THEN None ELSE ResolveKey(AliasOf(key)) :
        key \in {Normalize(raw_stop)}})

(***************************************************************************)
(* _route_leg, _find_stop_index                                            *)
(***************************************************************************)
\* [self._normalize(stop) for stop in stops]
NormalizedStops(stops) == [i \in 1..Len(stops) |-> Normalize(stops[i])]

\* the first position from lo on where list holds x, None when there is none
IndexFrom(list, x, lo) ==
  IF \A i \in lo..Len(list) : list[i] # x THEN None
  ELSE Some(SetMin({i \in lo..Len(list) : list[i] = x}))

\* normalized.index(target), None on ValueError
FindStopIndex(stops, stop_name) ==
  Only({IndexFrom(normalized, target, 1) :
        normalized \in {NormalizedStops(stops)}, target \in {Normalize(stop_name)}})

\* the first position after start where normalized_stops holds to_key
LegFrom(normalized_stops, start, to_key) ==
  IF start = None THEN None
  ELSE IF IndexFrom(normalized_stops, to_key, start[1] + 1) = None THEN None
  ELSE Some(<<start[1], IndexFrom(normalized_stops, to_key, start[1] + 1)[1]>>)

RouteLeg(stops, from_stop, to_stop) ==
  Only({Only({LegFrom(normalized_stops, start, to_key) :
              start \in {IndexFrom(normalized_stops, from_key, 1)}}) :
        normalized_stops \in {NormalizedStops(stops)},
        from_key \in {Normalize(from_stop)},
        to_key \in {Normalize(to_stop)}})

\* x < y for the sort keys, tuples of ints that end in a str: the tuples
\* compare by their first differing element
RECURSIVE KeyLess(_, _)
KeyLess(x, y) ==
  IF Len(x) = 1 THEN StrLess(x[1], y[1])
  ELSE x[1] < y[1] \/ (x[1] = y[1] /\ KeyLess(Tail(x), Tail(y)))

\* sorted(items, key)[0] of a non-empty list of <<key, payload>>: the first
\* item no other item's key is less than (the sort is stable)
FirstLeast(items) ==
  items[CHOOSE i \in 1..Len(items) :
          /\ \A j \in 1..Len(items) : ~KeyLess(items[j][1], items[i][1])
          /\ \A j \in 1..(i - 1) : KeyLess(items[i][1], items[j][1])]

(***************************************************************************)
(* find_route                                                              *)
(***************************************************************************)
\* the sort key of a match: key_with_time under a filter, key_no_time without
SortKey(route, after_minutes) ==
  IF after_minutes # None
  THEN <<route.departure_minutes - after_minutes[1], route.duration_minutes,
         route.route_id>>
  ELSE <<route.duration_minutes, route.departure_minutes, route.route_id>>

\* the dict appended to matches, with stops[start_idx : end_idx + 1]
Payload(route, start_idx, end_idx) ==
  [bus_number |-> route.bus_number,
   departure_time |-> route.departure_time,
   duration_minutes |-> route.duration_minutes,
   stops |-> SubSeq(route.stops, start_idx, end_idx)]

\* FindRouteMatch with the key (duration, departure, id) under a filter too
FindRouteMatchOneKey(route, resolved_from, resolved_to, after_minutes) ==
  Only({IF leg = None THEN <<>>
        ELSE IF after_minutes # None /\ route.departure_minutes < after_minutes[1]
             THEN <<>>
        ELSE << <<SortKey(route, None), Payload(route, leg[1][1], leg[1][2])>> >> :
        leg \in {RouteLeg(route.stops, resolved_from, resolved_to)}})

\* FindRouteMatch with the slice stops[start_idx : end_idx]
FindRouteMatchShortSlice(route, resolved_from, resolved_to, after_minutes) ==
  Only({IF leg = None THEN <<>>
        ELSE IF after_minutes # None /\ route.departure_minutes < after_minutes[1]
             THEN <<>>
        ELSE << <<SortKey(route, after_minutes),
                  Payload(route, leg[1][1], leg[1][2] - 1)>> >> :
        leg \in {RouteLeg(route.stops, resolved_from, resolved_to)}})

\* FindRouteMatch without the test of departure_minutes against after_minutes
FindRouteMatchNoFilter(route, resolved_from, resolved_to, after_minutes) ==
  Only({IF leg = None THEN <<>>
        ELSE << <<SortKey(route, after_minutes),
                  Payload(route, leg[1][1], leg[1][2])>> >> :
        leg \in {RouteLeg(route.stops, resolved_from, resolved_to)}})

\* one turn of the loop over self.routes: the <<key, payload>> appended to
\* matches, if any
FindRouteMatch(route, resolved_from, resolved_to, after_minutes) ==
  Only({IF leg = None THEN <<>>
        ELSE IF after_minutes # None /\ route.departure_minutes < after_minutes[1]
             THEN <<>>
        ELSE << <<SortKey(route, after_minutes),
                  Payload(route, leg[1][1], leg[1][2])>> >> :
        leg \in {RouteLeg(route.stops, resolved_from, resolved_to)}})

RECURSIVE FindRouteMatches(_, _, _, _, _)
FindRouteMatches(rows, i, resolved_from, resolved_to, after_minutes) ==
  IF i > Len(rows) THEN <<>>
  ELSE FindRouteMatch(rows[i], resolved_from, resolved_to, after_minutes)
         \o FindRouteMatches(rows, i + 1, resolved_from, resolved_to, after_minutes)

\* find_route once the stops are resolved and the time is parsed
FindRouteResolved(resolved_from, resolved_to, after_minutes) ==
  IF resolved_from = None \/ resolved_to = None THEN None
  ELSE Only({IF matches = <<>> THEN None ELSE Some(FirstLeast(matches)[2]) :
             matches \in {FindRouteMatches(routes, 1, resolved_from[1],
                                           resolved_to[1], after_minutes)}})

FindRouteResult(from_stop, to_stop, after_time) ==
  Only({FindRouteResolved(resolved_from, resolved_to, after_minutes) :
        resolved_from \in {ResolveStop(from_stop)},
        resolved_to \in {ResolveStop(to_stop)},
        after_minutes \in {ParseTime(after_time)}})

\* FindRoute that remembers what the from text resolved to in stop_lookup
FindRouteCachesLookup ==
  /\ pc = "idle"
  /\ \E f \in FromTexts, t \in ToTexts, a \in AfterTimes :
       /\ call' = [op |-> "find_route", from_stop |-> f, to_stop |-> t,
                   after_time |-> a]
       /\ result' = FindRouteResult(f, t, a)
       /\ stop_lookup' =
            IF ResolveStop(f) = None THEN stop_lookup
            ELSE [k \in DOMAIN stop_lookup \cup {Normalize(f)} |->
                    IF k = Normalize(f) THEN ResolveStop(f)[1] ELSE stop_lookup[k]]
  /\ pc' = "returned"
  /\ UNCHANGED <<routes, from_options, to_options, known_stops, aliases>>

FindRoute ==
  /\ pc = "idle"
  /\ \E f \in FromTexts, t \in ToTexts, a \in AfterTimes :
       /\ call' = [op |-> "find_route", from_stop |-> f, to_stop |-> t,
                   after_time |-> a]
       /\ result' = FindRouteResult(f, t, a)
  /\ pc' = "returned"
  /\ UNCHANGED agent

(***************************************************************************)
(* suggest_alternative                                                     *)
(***************************************************************************)
\* round(n / d) for n >= 0, d > 0: Python rounds a half to the even integer
RoundHalfEven(n, d) ==
  LET q == n \div d
      r == n % d
  IN  IF 2 * r < d THEN q
      ELSE IF 2 * r > d THEN q + 1
      ELSE IF q % 2 = 0 THEN q ELSE q + 1

\* _segment_duration.  The float product duration * (edges / total) is within
\* rounding error of the exact quotient, and is exactly a half only when the
\* exact quotient is (total a power of two), so rounding the exact quotient
\* gives the same integer.
SegmentDuration(route, start_idx, end_idx) ==
  LET total_edges == Max(1, Len(route.stops) - 1)
      segment_edges == Max(1, end_idx - start_idx)
  IN  Max(5, RoundHalfEven(route.duration_minutes * segment_edges, total_edges))

LegPayload(route, lo, hi, transfer_idx) ==
  [transfer_stop |-> route.stops[transfer_idx],
   bus_number |-> route.bus_number,
   departure_time |-> route.departure_time,
   departure_minutes |-> route.departure_minutes,
   duration_minutes |-> SegmentDuration(route, lo, hi),
   stops |-> SubSeq(route.stops, lo, hi)]

\* the first legs one route contributes, by ascending transfer index
RouteFirstLegs(route, resolved_from, after_minutes) ==
  Only({IF start_idx # None
           /\ (after_minutes = None \/ route.departure_minutes >= after_minutes[1])
        THEN [k \in 1..(Len(route.stops) - start_idx[1]) |->
                LegPayload(route, start_idx[1], start_idx[1] + k, start_idx[1] + k)]
        ELSE <<>> :
        start_idx \in {FindStopIndex(route.stops, resolved_from)}})

\* the second legs one route contributes, by ascending transfer index
RouteSecondLegs(route, resolved_to) ==
  Only({IF end_idx # None
        THEN [k \in 1..(end_idx[1] - 1) |-> LegPayload(route, k, end_idx[1], k)]
        ELSE <<>> :
        end_idx \in {FindStopIndex(route.stops, resolved_to)}})

RECURSIVE FirstLegs(_, _, _)
FirstLegs(rows, resolved_from, after_minutes) ==
  IF rows = <<>> THEN <<>>
  ELSE RouteFirstLegs(rows[1], resolved_from, after_minutes)
         \o FirstLegs(Tail(rows), resolved_from, after_minutes)

RECURSIVE SecondLegs(_, _)
SecondLegs(rows, resolved_to) ==
  IF rows = <<>> THEN <<>>
  ELSE RouteSecondLegs(rows[1], resolved_to) \o SecondLegs(Tail(rows), resolved_to)

\* second_legs_by_transfer.get(transfer_key, []): the second legs of that
\* transfer stop in the order they were appended
\* SecondLegsByTransfer that hands out the second legs of every transfer stop
SecondLegsOfAnyTransfer(legs, transfer_key) == legs

RECURSIVE SecondLegsByTransfer(_, _)
SecondLegsByTransfer(legs, transfer_key) ==
  IF legs = <<>> THEN <<>>
  ELSE (IF Normalize(legs[1].transfer_stop) = transfer_key
        THEN <<legs[1]>> ELSE <<>>)
         \o SecondLegsByTransfer(Tail(legs), transfer_key)

\* BestSecondLegForFirstLeg whose wait is not wrapped to the next day
BestSecondLegNoWrap(candidates, first_departure) ==
  Only({FirstLeast(keyed)[2] :
        keyed \in {[i \in 1..Len(candidates) |->
                      <<<<candidates[i].departure_minutes - first_departure,
                          candidates[i].duration_minutes, candidates[i].bus_number>>,
                        candidates[i]>>]}})

\* _best_second_leg_for_first_leg
SecondLegKey(leg, first_departure) ==
  LET wait == leg.departure_minutes - first_departure
  IN  <<IF wait < 0 THEN wait + 24 * 60 ELSE wait,
        leg.duration_minutes, leg.bus_number>>
BestSecondLegForFirstLeg(candidates, first_departure) ==
  Only({FirstLeast(keyed)[2] :
        keyed \in {[i \in 1..Len(candidates) |->
                      <<SecondLegKey(candidates[i], first_departure),
                        candidates[i]>>]}})

\* the leg pair is the same end-to-end trip twice
Degenerate(leg1, leg2) ==
  /\ Normalize(leg1.stops[1]) = Normalize(leg2.stops[1])
  /\ Normalize(leg1.stops[Len(leg1.stops)]) = Normalize(leg2.stops[Len(leg2.stops)])

\* the end of one pass of the loop over first_legs, with leg2 chosen:
\* nothing, or <<sort_key, payload>>
PlanOf(leg1, leg2, resolved_from, resolved_to) ==
  LET wait_minutes == Max(0, leg2.departure_minutes - leg1.departure_minutes)
      total_duration == leg1.duration_minutes + leg2.duration_minutes + wait_minutes
  IN  IF Degenerate(leg1, leg2) THEN <<>>
      ELSE << <<<<total_duration, leg1.departure_minutes, leg2.departure_minutes,
                  leg1.bus_number>>,
                [type |-> "transfer",
                 from_stop |-> resolved_from,
                 to_stop |-> resolved_to,
                 transfer_stop |-> leg1.transfer_stop,
                 leg1 |-> [bus_number |-> leg1.bus_number,
                           departure_time |-> leg1.departure_time,
                           duration_minutes |-> leg1.duration_minutes,
                           stops |-> leg1.stops],
                 leg2 |-> [bus_number |-> leg2.bus_number,
                           departure_time |-> leg2.departure_time,
                           duration_minutes |-> leg2.duration_minutes,
                           stops |-> leg2.stops],
                 total_duration_minutes |-> total_duration]>> >>

\* one pass of the loop over first_legs once leg2_candidates is looked up
PlanAmong(leg1, leg2_candidates, resolved_from, resolved_to) ==
  IF leg2_candidates = <<>> THEN <<>>
  ELSE Only({PlanOf(leg1, leg2, resolved_from, resolved_to) :
             leg2 \in {BestSecondLegForFirstLeg(leg2_candidates,
                                                leg1.departure_minutes)}})

\* one pass of the loop over first_legs
PlanFor(leg1, second_legs, resolved_from, resolved_to) ==
  Only({PlanAmong(leg1, leg2_candidates, resolved_from, resolved_to) :
        leg2_candidates \in
          {SecondLegsByTransfer(second_legs, Normalize(leg1.transfer_stop))}})

RECURSIVE Plans(_, _, _, _, _)
Plans(first_legs, i, second_legs, resolved_from, resolved_to) ==
  IF i > Len(first_legs) THEN <<>>
  ELSE PlanFor(first_legs[i], second_legs, resolved_from, resolved_to)
         \o Plans(first_legs, i + 1, second_legs, resolved_from, resolved_to)

\* best_plan: a plan replaces the best one only when its key is strictly less
BestPlan(plans) == IF plans = <<>> THEN None ELSE Some(FirstLeast(plans)[2])

\* suggest_alternative once the stops are resolved and the time is parsed
SuggestAlternativeResolved(resolved_from, resolved_to, after_minutes) ==
  IF resolved_from = None \/ resolved_to = None THEN None
  ELSE Only({Only({BestPlan(plans) :
                   plans \in {Plans(first_legs, 1, second_legs,
                                    resolved_from[1], resolved_to[1])}}) :
             first_legs \in {FirstLegs(routes, resolved_from[1], after_minutes)},
             second_legs \in {SecondLegs(routes, resolved_to[1])}})

SuggestAlternativeResult(from_stop, to_stop, after_time) ==
  Only({SuggestAlternativeResolved(resolved_from, resolved_to, after_minutes) :
        resolved_from \in {ResolveStop(from_stop)},
        resolved_to \in {ResolveStop(to_stop)},
        after_minutes \in {ParseTime(after_time)}})

SuggestAlternative ==
  /\ pc = "idle"
  /\ \E f \in FromTexts, t \in ToTexts, a \in AfterTimes :
       /\ call' = [op |-> "suggest_alternative", from_stop |-> f, to_stop |-> t,
                   after_time |-> a]
       /\ result' = SuggestAlternativeResult(f, t, a)
  /\ pc' = "returned"
  /\ UNCHANGED agent

GetOptions ==
  /\ pc = "idle"
  /\ call' = [NoCall EXCEPT !.op = "get_options"]
  /\ result' = Some([from_options |-> from_options, to_options |-> to_options])
  /\ pc' = "returned"
  /\ UNCHANGED agent

\* the caller takes the returned value; the agent is ready for the next call
Return ==
  /\ pc = "returned"
  /\ pc' = "idle"
  /\ call' = NoCall
  /\ result' = None
  /\ UNCHANGED agent

Next == GetOptions \/ FindRoute \/ SuggestAlternative \/ Return

Spec == Init /\ [][Next]_vars

(***************************************************************************)
(* Properties.                                                             *)
(***************************************************************************)
Returned(op) == pc = "returned" /\ call.op = op
\* ascending order of the keys (int, int, str) and (int, int, int, str)
Before3(x, y) ==
  \/ x[1] < y[1]
  \/ x[1] = y[1] /\ x[2] < y[2]
  \/ x[1] = y[1] /\ x[2] = y[2] /\ StrLess(x[3], y[3])
Before4(x, y) ==
  \/ x[1] < y[1]
  \/ x[1] = y[1] /\ Before3(<<x[2], x[3], x[4]>>, <<y[2], y[3], y[4]>>)
Last(seq) == seq[Len(seq)]
SameStop(a, b) == Normalize(a) = Normalize(b)
ResolvedFrom == ResolveStop(call.from_stop)
ResolvedTo == ResolveStop(call.to_stop)
AfterMinutes == ParseTime(call.after_time)

\* C1: the stop slice of every find_route result has at least two stops,
\* begins at the resolved from stop and ends at the resolved to stop (stops
\* compared by normalized name).
FindRouteSliceEndpoints ==
  (Returned("find_route") /\ result # None) =>
    /\ ResolvedFrom # None /\ ResolvedTo # None
    /\ Len(result[1].stops) >= 2
    /\ SameStop(result[1].stops[1], ResolvedFrom[1])
    /\ SameStop(Last(result[1].stops), ResolvedTo[1])

\* a three-stop slice whose first stop is spelled unlike the resolved name
FindRouteSliceWitness ==
  /\ Returned("find_route") /\ result # None
  /\ Len(result[1].stops) = 3
  /\ result[1].stops[1] # ResolvedFrom[1]

\* C2: with a time filter that parses, a find_route result departs at or
\* after the filter.
FindRouteDepartsAfter ==
  (Returned("find_route") /\ AfterMinutes # None /\ result # None) =>
    ClockToMinutes(result[1].departure_time) >= AfterMinutes[1]

\* a result under a filter that discards another row connecting the stops
FindRouteDepartsAfterWitness ==
  /\ Returned("find_route") /\ AfterMinutes # None /\ result # None
  /\ \E i \in 1..Len(routes) :
       /\ RouteLeg(routes[i].stops, ResolvedFrom[1], ResolvedTo[1]) # None
       /\ routes[i].departure_minutes < AfterMinutes[1]

\* C3: with a time filter that parses, both legs of a suggest_alternative
\* plan depart at or after the filter.
PlanLegsDepartAfter ==
  (Returned("suggest_alternative") /\ AfterMinutes # None /\ result # None) =>
    /\ ClockToMinutes(result[1].leg1.departure_time) >= AfterMinutes[1]
    /\ ClockToMinutes(result[1].leg2.departure_time) >= AfterMinutes[1]

\* C4: in every suggest_alternative plan leg1 begins at the resolved from
\* stop, leg2 ends at the resolved to stop, leg1 ends and leg2 begins at the
\* reported transfer stop, and the two legs do not have the same end points.
PlanLegsJoin ==
  (Returned("suggest_alternative") /\ result # None) =>
    LET plan == result[1]
    IN  /\ ResolvedFrom = Some(plan.from_stop) /\ ResolvedTo = Some(plan.to_stop)
        /\ SameStop(plan.leg1.stops[1], plan.from_stop)
        /\ SameStop(Last(plan.leg2.stops), plan.to_stop)
        /\ Last(plan.leg1.stops) = plan.transfer_stop
        /\ SameStop(plan.leg2.stops[1], plan.transfer_stop)
        /\ ~(/\ SameStop(plan.leg1.stops[1], plan.leg2.stops[1])
             /\ SameStop(Last(plan.leg1.stops), Last(plan.leg2.stops)))

\* a plan whose two rows spell the transfer stop differently
PlanLegsJoinWitness ==
  /\ Returned("suggest_alternative") /\ result # None
  /\ Last(result[1].leg1.stops) # result[1].leg2.stops[1]

\* C5: _resolve_stop returns every known stop for its own name.
KnownStopsResolveToThemselves ==
  \A i \in 1..Len(known_stops) : ResolveStop(known_stops[i]) = Some(known_stops[i])

\* the index of the first occurrence of a stop in a row's stops, as a set
FirstOccurrence(stops, name) ==
  LET key == Normalize(name)
      keys == [i \in 1..Len(stops) |-> Normalize(stops[i])]
  IN  {i \in 1..Len(stops) : keys[i] = key /\ \A j \in 1..(i - 1) : keys[j] # key}

\* the leg <<start, end>> of a row that connects two stops: the first
\* occurrence of from and the first later occurrence of to
ConnectingLeg(stops, from_name, to_name) ==
  LET first == FirstOccurrence(stops, from_name)
      key == Normalize(to_name)
      keys == [i \in 1..Len(stops) |-> Normalize(stops[i])]
  IN  {<<b, e>> \in first \X (1..Len(stops)) :
         /\ b < e /\ keys[e] = key
         /\ \A k \in (b + 1)..(e - 1) : keys[k] # key}
PassesFilter(route, filter) ==
  filter = None \/ route.departure_minutes >= filter[1]
DirectCandidates(from_name, to_name, filter) ==
  {i \in 1..Len(routes) :
     /\ ConnectingLeg(routes[i].stops, from_name, to_name) # {}
     /\ PassesFilter(routes[i], filter)}
DirectKey(route, filter) ==
  IF filter # None
  THEN <<route.departure_minutes - filter[1], route.duration_minutes, route.route_id>>
  ELSE <<route.duration_minutes, route.departure_minutes, route.route_id>>
DirectPayload(route, from_name, to_name) ==
  LET leg == CHOOSE l \in ConnectingLeg(route.stops, from_name, to_name) : TRUE
  IN  [bus_number |-> route.bus_number,
       departure_time |-> route.departure_time,
       duration_minutes |-> route.duration_minutes,
       stops |-> SubSeq(route.stops, leg[1], leg[2])]
\* the candidate rows of the call that has returned
CallCandidates ==
  LET rf == ResolvedFrom
      rt == ResolvedTo
  IN  IF rf = None \/ rt = None THEN {}
      ELSE DirectCandidates(rf[1], rt[1], AfterMinutes)

\* C6: find_route returns nothing exactly when no row has a candidate leg,
\* and otherwise the leg of a candidate row whose sort key is least: (departure
\* - filter, duration, id) under a filter, (duration, departure, id) without.
FindRouteReturnsLeastKey ==
  Returned("find_route") =>
    LET rf == ResolvedFrom
        rt == ResolvedTo
        filter == AfterMinutes
        candidates == IF rf = None \/ rt = None THEN {}
                      ELSE DirectCandidates(rf[1], rt[1], filter)
    IN  IF candidates = {} THEN result = None
        ELSE \E i \in candidates :
               /\ result = Some(DirectPayload(routes[i], rf[1], rt[1]))
               /\ \A j \in candidates :
                    ~Before3(DirectKey(routes[j], filter), DirectKey(routes[i], filter))

\* under a filter two rows connect the stops and the second row wins
FindRouteLeastKeyWitness ==
  /\ Returned("find_route") /\ AfterMinutes # None
  /\ result # None /\ Len(routes) = 2
  /\ result[1].bus_number = routes[2].bus_number
  /\ routes[1].duration_minutes < routes[2].duration_minutes
  /\ Cardinality(CallCandidates) = 2

\* the text does not resolve: it normalizes to nothing, or (after the alias
\* table) no known stop scores 0.70 or more against it
Unresolvable(text) ==
  LET key0 == Normalize(text)
      key == IF key0 \in DOMAIN AliasTable THEN AliasTable[key0] ELSE key0
  IN  \/ key0 = <<>>
      \/ \A i \in 1..Len(known_stops) :
           BelowThreshold(Score(key, Normalize(known_stops[i])))

\* C7: when the from text or the to text does not resolve, find_route and
\* suggest_alternative return nothing.
UnresolvableReturnsNothing ==
  ((Returned("find_route") \/ Returned("suggest_alternative"))
     /\ (Unresolvable(call.from_stop) \/ Unresolvable(call.to_stop)))
    => result = None

\* a call whose from text is not blank and scores too low, in a timetable
\* that connects its stops
UnresolvableWitness ==
  /\ Returned("find_route")
  /\ Normalize(call.from_stop) # <<>> /\ Unresolvable(call.from_stop)
  /\ ~Unresolvable(call.to_stop)
  /\ Len(routes) = 2

\* the text is not empty and strptime rejects it
Unparsable(text) == text # <<>> /\ Strip(text) # <<>> /\ ~ClockOk(Strip(text))

\* C8: a call with an after_time that does not parse returns what the same
\* call with an empty after_time returns.
UnparsableTimeIsNoFilter ==
  /\ (Returned("find_route") /\ Unparsable(call.after_time)) =>
       result = FindRouteResult(call.from_stop, call.to_stop, <<>>)
  /\ (Returned("suggest_alternative") /\ Unparsable(call.after_time)) =>
       result = SuggestAlternativeResult(call.from_stop, call.to_stop, <<>>)

\* a route found under an after_time that does not parse
UnparsableTimeWitness ==
  /\ Returned("find_route") /\ Unparsable(call.after_time)
  /\ result # None /\ result[1].departure_time = t0800

\* C9: no call changes the routes, the option lists, the known stops, the
\* stop lookup or the alias table.
AgentNeverChanges == [][agent' = agent]_vars

\* a call has returned a plan from a timetable of two rows
AgentNeverChangesWitness ==
  /\ Returned("suggest_alternative") /\ result # None /\ Len(routes) = 2
  /\ aliases = AliasTable /\ known_stops = BuildStopList(routes)

\* the first legs <<row, start, transfer>> from a stop under a filter and
\* the second legs <<row, transfer, end>> to a stop
FirstLegIndices(from_name, filter) ==
  UNION {{<<i, b, t>> : b \in FirstOccurrence(routes[i].stops, from_name),
                        t \in 1..Len(routes[i].stops)} :
           i \in {k \in 1..Len(routes) : PassesFilter(routes[k], filter)}}
    \cap {l \in (1..Len(routes)) \X (1..MaxStops) \X (1..MaxStops) : l[2] < l[3]}
SecondLegIndices(to_name) ==
  UNION {{<<i, u, e>> : u \in 1..Len(routes[i].stops),
                        e \in FirstOccurrence(routes[i].stops, to_name)} :
           i \in 1..Len(routes)}
    \cap {l \in (1..Len(routes)) \X (1..MaxStops) \X (1..MaxStops) : l[2] < l[3]}
LegDeparture(l) == routes[l[1]].departure_minutes
LegDuration(l) == SegmentDuration(routes[l[1]], l[2], l[3])
LegBus(l) == routes[l[1]].bus_number
LegStops(l) == SubSeq(routes[l[1]].stops, l[2], l[3])
\* the second legs at the transfer stop of a first leg, and the least of them
\* by (wait, duration, bus number), the wait taken to the next day if negative
SecondLegsAt(second, l1) ==
  {l2 \in second : SameStop(LegStops(l2)[1], Last(LegStops(l1)))}
WrappedWait(l1, l2) ==
  IF LegDeparture(l2) - LegDeparture(l1) < 0
  THEN LegDeparture(l2) - LegDeparture(l1) + 1440
  ELSE LegDeparture(l2) - LegDeparture(l1)
PairKey(l1, l2) == <<WrappedWait(l1, l2), LegDuration(l2), LegBus(l2)>>
Pairings(first, second) ==
  {p \in first \X second :
     LET at == SecondLegsAt(second, p[1])
     IN  /\ p[2] \in at
         /\ \A c \in at : ~Before3(PairKey(p[1], c), PairKey(p[1], p[2]))
         /\ ~(/\ SameStop(LegStops(p[1])[1], LegStops(p[2])[1])
              /\ SameStop(Last(LegStops(p[1])), Last(LegStops(p[2]))))}
PairTotal(p) ==
  LegDuration(p[1]) + LegDuration(p[2])
    + Max(0, LegDeparture(p[2]) - LegDeparture(p[1]))
PairPlanKey(p) ==
  <<PairTotal(p), LegDeparture(p[1]), LegDeparture(p[2]), LegBus(p[1])>>
PairLeg(l) ==
  [bus_number |-> LegBus(l),
   departure_time |-> routes[l[1]].departure_time,
   duration_minutes |-> LegDuration(l),
   stops |-> LegStops(l)]
\* the surviving pairings of the call that has returned
CallPairings ==
  LET rf == ResolvedFrom
      rt == ResolvedTo
  IN  IF rf = None \/ rt = None THEN {}
      ELSE Pairings(FirstLegIndices(rf[1], AfterMinutes), SecondLegIndices(rt[1]))

\* C10: suggest_alternative returns nothing when no pairing survives, and
\* otherwise a pairing of a first leg with its least second leg (by wait,
\* duration, bus number) whose key (total, leg1 departure, leg2 departure,
\* leg1 bus number) is least; the reported total is leg1 duration + leg2
\* duration + max(0, leg2 departure - leg1 departure) of the returned legs.
SuggestReturnsLeastPairing ==
  Returned("suggest_alternative") =>
    LET pairings == CallPairings
    IN  IF pairings = {} THEN result = None
        ELSE /\ result # None
             /\ \E p \in pairings :
                  /\ result[1].leg1 = PairLeg(p[1])
                  /\ result[1].leg2 = PairLeg(p[2])
                  /\ result[1].total_duration_minutes = PairTotal(p)
                  /\ \A q \in pairings : ~Before4(PairPlanKey(q), PairPlanKey(p))
             /\ result[1].total_duration_minutes =
                  result[1].leg1.duration_minutes + result[1].leg2.duration_minutes
                    + Max(0, ClockToMinutes(result[1].leg2.departure_time)
                               - ClockToMinutes(result[1].leg1.departure_time))

\* several pairings survive, and the first leg of the plan had a second leg
\* to choose that departs before it
SuggestLeastPairingWitness ==
  /\ Returned("suggest_alternative") /\ result # None
  /\ ClockToMinutes(result[1].leg2.departure_time)
       >= ClockToMinutes(result[1].leg1.departure_time)
  /\ LET pairings == CallPairings
         second == SecondLegIndices(ResolvedTo[1])
     IN  /\ Cardinality(pairings) >= 2
         /\ \E p \in pairings :
              /\ result[1].leg1 = PairLeg(p[1]) /\ result[1].leg2 = PairLeg(p[2])
              /\ \E c \in SecondLegsAt(second, p[1]) : LegDeparture(c) < LegDeparture(p[1])

\* every pair of a first leg and a second leg of the call that has returned
\* that meet at one normalized transfer stop and are not the same end-to-end
\* trip, whichever second leg the first leg chose
JoinedPairs(first, second) ==
  {p \in first \X second :
     /\ p[2] \in SecondLegsAt(second, p[1])
     /\ ~(/\ SameStop(LegStops(p[1])[1], LegStops(p[2])[1])
          /\ SameStop(Last(LegStops(p[1])), Last(LegStops(p[2]))))}
CallJoinedPairs ==
  LET rf == ResolvedFrom
      rt == ResolvedTo
  IN  IF rf = None \/ rt = None THEN {}
      ELSE JoinedPairs(FirstLegIndices(rf[1], AfterMinutes), SecondLegIndices(rt[1]))

\* C11: no pair of a first leg and a second leg that share the normalized
\* transfer stop and are not degenerate has a strictly smaller total duration
\* (leg1 duration + leg2 duration + max(0, leg2 departure - leg1 departure))
\* than the plan suggest_alternative returns.
PlanIsBestCombination ==
  (Returned("suggest_alternative") /\ result # None) =>
    \A p \in CallJoinedPairs : PairTotal(p) >= result[1].total_duration_minutes

\* C12: the two legs of a plan suggest_alternative returns are taken from two
\* different route records: no first leg and second leg of one record are the
\* legs of the plan.
PlanUsesTwoRecords ==
  (Returned("suggest_alternative") /\ result # None) =>
    \A l1 \in FirstLegIndices(ResolvedFrom[1], AfterMinutes),
       l2 \in SecondLegIndices(ResolvedTo[1]) :
      (result[1].leg1 = PairLeg(l1) /\ result[1].leg2 = PairLeg(l2)) => l1[1] # l2[1]

====
